---------------------------- MODULE Spec2Model ----------------------------
(***************************************************************************)
(* The check framework of city-bike-data-analisys: the checks of           *)
(* checks.py (one apply per variant) and the DataSource of solution.py     *)
(* that holds a table and an ordered list of checks.                       *)
(*                                                                         *)
(* A table (a pandas DataFrame) is a function from the names of its        *)
(* columns to the sequence of cells of each column; all columns of a table *)
(* have the same length.  A cell is a pair <<kind, n>>.                    *)
(***************************************************************************)
EXTENDS Naturals, Sequences, FiniteSets

VARIABLES
    pool,         \* the check objects constructed so far; an object is known by its index
    calls,        \* calls[i]: how many times a caller called apply on object i itself
    checks,       \* DataSource._checks: a list of object indexes
    data_source,  \* the table, after the last operation
    prev_table,   \* the table handed to the last operation
    prev_checks,  \* DataSource._checks before the last operation
    prev_found,   \* _found_issues of the applied object before the last apply
    op,           \* the last operation
    arg,          \* the object the last operation was called with (0: none)
    res,          \* how the last operation ended: [exc, payload]
    applied       \* the objects whose apply was called by the last operation, in order

vars == <<pool, calls, checks, data_source, prev_table, prev_checks, prev_found,
          op, arg, res, applied>>

-----------------------------------------------------------------------------
(* Bounds *)

MaxCols == 2
MaxCalls == 2
MaxObjs == 2
MaxChecks == 3

Cols == {"a", "b"}
RowCounts == {0, 1, 2}

-----------------------------------------------------------------------------
(* Cells *)

NaN == <<"null", 0>>
Int(n) == <<"int", n>>
Str(n) == <<"str", n>>
Raw(t) == <<"raw", t>>
Canon(t) == <<"canon", t>>

NaT == <<"NaT", 0>>
BadDate == <<"bad", 0>>
Instant(t) == <<"ts", t>>

\* pd.Timestamp(x) / pd.to_datetime(x): a date string in either format is
\* the instant it writes, a number counts nanoseconds from the epoch (the
\* instant 0 to the second), a missing value is NaT, any other string is
\* refused.
Timestamp(x) ==
    CASE x[1] \in {"raw", "canon"} -> Instant(x[2])
      [] x[1] = "int" -> Instant(0)
      [] x[1] = "null" -> NaT
      [] OTHER -> BadDate

\* ts.strftime('%Y-%m-%d %X'); NaT has no strftime.
Strftime(ts) == IF ts[1] = "ts" THEN Canon(ts[2]) ELSE BadDate

\* lambda x: pd.Timestamp(x).strftime('%Y-%m-%d %X')
FormatCell(x) == Strftime(Timestamp(x))

-----------------------------------------------------------------------------
(* Tables *)

\* The tables over the cells A: any columns of Cols, any number of rows of
\* RowCounts.
TablesOver(A) ==
    UNION { UNION { [cs -> [1..r -> A]] : r \in RowCounts } : cs \in SUBSET Cols }

ColOrder == <<"a", "b">>

\* data_source.columns
TableColumns(T) == SelectSeq(ColOrder, LAMBDA c : c \in DOMAIN T)

Cells(column) == {column[k] : k \in DOMAIN column}

\* Series.dtype, as read_csv infers it
DType(column) ==
    IF Len(column) = 0 THEN "object"
    ELSE IF \A x \in Cells(column) : x[1] = "int" THEN "int64"
    ELSE IF \A x \in Cells(column) : x[1] \in {"int", "null"} THEN "float64"
    ELSE "object"

-----------------------------------------------------------------------------
(* Check objects *)

EmptyDict == [c \in {} |-> NaN]

DictSet(d, key, value) ==
    [c \in DOMAIN d \cup {key} |-> IF c = key THEN value ELSE d[c]]

\* The lists of at most MaxCols column names a check is constructed with.
ColumnLists == UNION { [1..n -> Cols] : n \in 0..MaxCols }

\* Check.__init__ and the __init__ of the subclasses; a field a variant does
\* not have holds its default.
NewCheck(variant, columns, found) ==
    [variant |-> variant, columns |-> columns, found |-> found,
     gibberish_list |-> {}, possible_values |-> {}, range_start |-> 0,
     range_end |-> 0, expected_columns |-> {}, current_time |-> 0]

CheckTimeStamps(columns) == NewCheck("CheckTimeStamps", columns, <<>>)
CheckBlank(columns) == NewCheck("CheckBlank", columns, <<>>)
CheckDuplicate(columns) == NewCheck("CheckDuplicate", columns, <<>>)
CheckDataConsistency(columns) == NewCheck("CheckDataConsistency", columns, <<>>)
CheckIsNaN(columns) == NewCheck("CheckIsNaN", columns, <<>>)

CheckGibberrish(columns, giberrish_list) ==
    [NewCheck("CheckGibberrish", columns, EmptyDict)
        EXCEPT !.gibberish_list = giberrish_list]

CheckDataValidity(columns, possible_values) ==
    [NewCheck("CheckDataValidity", columns, EmptyDict)
        EXCEPT !.possible_values = possible_values]

CheckFutureDates(columns, now) ==
    [NewCheck("CheckFutureDates", columns, {}) EXCEPT !.current_time = now]

CheckNumWithinRange(columns, range_start, range_end) ==
    [NewCheck("CheckNumWithinRange", columns, <<>>)
        EXCEPT !.range_start = range_start, !.range_end = range_end]

CheckDataRelevancy(columns, expected_columns) ==
    [NewCheck("CheckDataRelevancy", columns, <<>>)
        EXCEPT !.expected_columns = expected_columns]

-----------------------------------------------------------------------------
(* How an apply ends *)

Returned(T, found) ==
    [exc |-> "none", payload |-> <<>>, table |-> T, found |-> found]

Raised(exc, payload, T, found) ==
    [exc |-> exc, payload |-> payload, table |-> T, found |-> found]

\* if issues: raise ValidDataException(..., issues)
RaiseIf(nonempty, exc, payload, T, found) ==
    IF nonempty THEN Raised(exc, payload, T, found) ELSE Returned(T, found)

-----------------------------------------------------------------------------
(* checks.py: the apply of each variant.  A loop over self.columns is a     *)
(* recursion on the position i in the list; data_source[col] on a column    *)
(* the table lacks raises KeyError in the middle of the loop.               *)

SetMin(S) == CHOOSE x \in S : \A y \in S : x <= y
SetMax(S) == CHOOSE x \in S : \A y \in S : x >= y

\* Mutant of TimeStampsFrom: the formatting is mapped over the whole table,
\* so every column that formats is rewritten, listed or not.
RECURSIVE TimeStampsWholeTable(_, _, _)
TimeStampsWholeTable(columns, i, T) ==
    IF i > Len(columns) THEN Returned(T, <<>>)
    ELSE LET column == columns[i] IN
         IF column \notin DOMAIN T THEN Raised("KeyError", column, T, <<>>)
         ELSE LET bad == {k \in DOMAIN T[column] : FormatCell(T[column][k]) = BadDate}
                  x == T[column][SetMin(bad)]
              IN  IF bad # {}
                  THEN Raised(IF Timestamp(x) = BadDate THEN "ParserError" ELSE "ValueError",
                              <<column, x>>, T, <<>>)
                  ELSE TimeStampsWholeTable(columns, i + 1,
                           [c \in DOMAIN T |->
                               IF \A k \in DOMAIN T[c] : FormatCell(T[c][k]) # BadDate
                               THEN [k \in DOMAIN T[c] |-> FormatCell(T[c][k])]
                               ELSE T[c]])

\* Mutant of TimeStampsFrom: every listed column is read before any is
\* written, so a refused cell leaves the whole table as it was.
RECURSIVE TimeStampsAllOrNothing(_, _, _)
TimeStampsAllOrNothing(columns, i, T) ==
    LET rest == {j \in i..Len(columns) :
                    \/ columns[j] \notin DOMAIN T
                    \/ \E k \in DOMAIN T[columns[j]] : FormatCell(T[columns[j]][k]) = BadDate}
    IN  IF i > Len(columns) THEN Returned(T, <<>>)
        ELSE IF rest # {}
        THEN LET column == columns[SetMin(rest)] IN
             IF column \notin DOMAIN T THEN Raised("KeyError", column, T, <<>>)
             ELSE LET bad == {k \in DOMAIN T[column] : FormatCell(T[column][k]) = BadDate}
                      x == T[column][SetMin(bad)]
                  IN  Raised(IF Timestamp(x) = BadDate THEN "ParserError" ELSE "ValueError",
                             <<column, x>>, T, <<>>)
        ELSE TimeStampsAllOrNothing(columns, i + 1,
                 [T EXCEPT ![columns[i]] =
                     [k \in DOMAIN T[columns[i]] |-> FormatCell(T[columns[i]][k])]])

\* CheckTimeStamps.apply: each column is rebuilt whole by Series.apply and
\* only then assigned, so a cell that is refused leaves its column as it was.
RECURSIVE TimeStampsFrom(_, _, _)
TimeStampsFrom(columns, i, T) ==
    IF i > Len(columns) THEN Returned(T, <<>>)
    ELSE LET column == columns[i] IN
         IF column \notin DOMAIN T THEN Raised("KeyError", column, T, <<>>)
         ELSE LET bad == {k \in DOMAIN T[column] : FormatCell(T[column][k]) = BadDate}
                  x == T[column][SetMin(bad)]
              IN  IF bad # {}
                  THEN Raised(IF Timestamp(x) = BadDate THEN "ParserError" ELSE "ValueError",
                              <<column, x>>, T, <<>>)
                  ELSE TimeStampsFrom(columns, i + 1,
                           [T EXCEPT ![column] =
                               [k \in DOMAIN T[column] |-> FormatCell(T[column][k])]])

ApplyTimeStamps(chk, T) == TimeStampsFrom(chk.columns, 1, T)

\* Mutant of BlankFrom: a column the table lacks is passed over.
RECURSIVE BlankSkipsMissing(_, _, _, _)
BlankSkipsMissing(columns, i, T, empty_cols) ==
    IF i > Len(columns)
    THEN RaiseIf(empty_cols # <<>>, "DataException", empty_cols, T, <<>>)
    ELSE LET col == columns[i] IN
         IF col \notin DOMAIN T THEN BlankSkipsMissing(columns, i + 1, T, empty_cols)
         ELSE BlankSkipsMissing(columns, i + 1, T,
                  IF Len(T[col]) = 0 THEN Append(empty_cols, col) ELSE empty_cols)

\* CheckBlank.apply
RECURSIVE BlankFrom(_, _, _, _)
BlankFrom(columns, i, T, empty_cols) ==
    IF i > Len(columns)
    THEN RaiseIf(empty_cols # <<>>, "DataException", empty_cols, T, <<>>)
    ELSE LET col == columns[i] IN
         IF col \notin DOMAIN T THEN Raised("KeyError", col, T, <<>>)
         ELSE BlankFrom(columns, i + 1, T,
                  IF Len(T[col]) = 0 THEN Append(empty_cols, col) ELSE empty_cols)

ApplyBlank(chk, T) == BlankFrom(chk.columns, 1, T, <<>>)

\* CheckGibberrish._check_gibberish
check_gibberish(chk, found, col, item) ==
    IF item \in chk.gibberish_list THEN DictSet(found, col, item) ELSE found

\* data_source[col].apply(lambda x: self._check_gibberish(col, x))
RECURSIVE GibberishCells(_, _, _, _, _)
GibberishCells(chk, col, column, k, found) ==
    IF k > Len(column) THEN found
    ELSE GibberishCells(chk, col, column, k + 1,
                        check_gibberish(chk, found, col, column[k]))

\* CheckGibberrish.apply; self._found_issues is the dictionary made in
\* __init__, the one every call writes to.
RECURSIVE GibberishFrom(_, _, _, _)
GibberishFrom(chk, i, T, found) ==
    IF i > Len(chk.columns)
    THEN RaiseIf(DOMAIN found # {}, "ValidDataException", found, T, found)
    ELSE LET col == chk.columns[i] IN
         IF col \notin DOMAIN T THEN Raised("KeyError", col, T, found)
         ELSE GibberishFrom(chk, i + 1, T, GibberishCells(chk, col, T[col], 1, found))

ApplyGibberrish(chk, T) == GibberishFrom(chk, 1, T, chk.found)

\* Series.is_unique (missing values count as one value)
is_unique(column) == Cardinality(Cells(column)) = Len(column)

\* Mutant of DuplicateFrom: the first column with a duplicate is raised at once.
RECURSIVE DuplicateFirstOnly(_, _, _, _)
DuplicateFirstOnly(columns, i, T, cols_with_duplicate_values) ==
    IF i > Len(columns) THEN Returned(T, <<>>)
    ELSE LET col == columns[i] IN
         IF col \notin DOMAIN T THEN Raised("KeyError", col, T, <<>>)
         ELSE IF ~is_unique(T[col]) THEN Raised("ValidDataException", <<col>>, T, <<>>)
         ELSE DuplicateFirstOnly(columns, i + 1, T, cols_with_duplicate_values)

\* CheckDuplicate.apply
RECURSIVE DuplicateFrom(_, _, _, _)
DuplicateFrom(columns, i, T, cols_with_duplicate_values) ==
    IF i > Len(columns)
    THEN RaiseIf(cols_with_duplicate_values # <<>>, "ValidDataException",
                 cols_with_duplicate_values, T, <<>>)
    ELSE LET col == columns[i] IN
         IF col \notin DOMAIN T THEN Raised("KeyError", col, T, <<>>)
         ELSE DuplicateFrom(columns, i + 1, T,
                  IF ~is_unique(T[col]) THEN Append(cols_with_duplicate_values, col)
                  ELSE cols_with_duplicate_values)

ApplyDuplicate(chk, T) == DuplicateFrom(chk.columns, 1, T, <<>>)

\* CheckDataValidity._check_data_inputs; _found_issues is a defaultdict(set)
check_data_inputs(chk, found, col, item) ==
    IF item \notin chk.possible_values
    THEN DictSet(found, col, (IF col \in DOMAIN found THEN found[col] ELSE {}) \cup {item})
    ELSE found

RECURSIVE ValidityCells(_, _, _, _, _)
ValidityCells(chk, col, column, k, found) ==
    IF k > Len(column) THEN found
    ELSE ValidityCells(chk, col, column, k + 1,
                       check_data_inputs(chk, found, col, column[k]))

\* CheckDataValidity.apply
RECURSIVE ValidityFrom(_, _, _, _)
ValidityFrom(chk, i, T, found) ==
    IF i > Len(chk.columns)
    THEN RaiseIf(DOMAIN found # {}, "ValidDataException", found, T, found)
    ELSE LET col == chk.columns[i] IN
         IF col \notin DOMAIN T THEN Raised("KeyError", col, T, found)
         ELSE ValidityFrom(chk, i + 1, T, ValidityCells(chk, col, T[col], 1, found))

ApplyDataValidity(chk, T) == ValidityFrom(chk, 1, T, chk.found)

\* CheckFutureDates._check_time: NaT is later than nothing
check_time(chk, found, col, item) ==
    LET ts == Timestamp(item) IN
    IF ts[1] = "ts" /\ chk.current_time < ts[2] THEN found \cup {col} ELSE found

\* The cells of one column in order; pd.to_datetime raises on the first
\* string that is no date, and the cells before it have been looked at.
RECURSIVE TimeCells(_, _, _, _, _)
TimeCells(chk, col, column, k, found) ==
    IF k > Len(column) THEN [raised |-> FALSE, found |-> found]
    ELSE IF Timestamp(column[k]) = BadDate THEN [raised |-> TRUE, found |-> found]
    ELSE TimeCells(chk, col, column, k + 1, check_time(chk, found, col, column[k]))

\* CheckFutureDates.apply
RECURSIVE FutureDatesFrom(_, _, _, _)
FutureDatesFrom(chk, i, T, found) ==
    IF i > Len(chk.columns)
    THEN RaiseIf(found # {}, "ValidDataException", found, T, found)
    ELSE LET col == chk.columns[i] IN
         IF col \notin DOMAIN T THEN Raised("KeyError", col, T, found)
         ELSE LET r == TimeCells(chk, col, T[col], 1, found) IN
              IF r.raised THEN Raised("ParserError", col, T, r.found)
              ELSE FutureDatesFrom(chk, i + 1, T, r.found)

ApplyFutureDates(chk, T) == FutureDatesFrom(chk, 1, T, chk.found)

\* The numbers of a column: Series.min() and Series.max() skip missing
\* values and are NaN, which compares False, when no number is left.
Numbers(column) == {x[2] : x \in {y \in Cells(column) : y[1] = "int"}}

OutOfRange(chk, column) ==
    /\ Numbers(column) # {}
    /\ \/ SetMin(Numbers(column)) < chk.range_start
       \/ SetMax(Numbers(column)) > chk.range_end

\* The loop of CheckNumWithinRange.apply; a string does not compare with a number.
RECURSIVE RangeFrom(_, _, _, _)
RangeFrom(chk, i, T, found) ==
    IF i > Len(chk.columns)
    THEN RaiseIf(found # <<>>, "ValidDataException", found, T, found)
    ELSE LET col == chk.columns[i] IN
         IF col \notin DOMAIN T THEN Raised("KeyError", col, T, found)
         ELSE IF \E x \in Cells(T[col]) : x[1] \notin {"int", "null"}
              THEN Raised("TypeError", col, T, found)
         ELSE RangeFrom(chk, i + 1, T,
                  IF OutOfRange(chk, T[col]) THEN Append(found, col) ELSE found)

\* Mutant of ApplyNumWithinRange: the bounds are looked at after the columns.
ApplyNumWithinRangeLate(chk, T) ==
    LET r == RangeFrom(chk, 1, T, chk.found) IN
    IF r.exc \in {"KeyError", "TypeError"} THEN r
    ELSE IF chk.range_start > chk.range_end
    THEN Raised("ValueError", <<chk.range_start, chk.range_end>>, T, chk.found)
    ELSE r

\* CheckNumWithinRange.apply
ApplyNumWithinRange(chk, T) ==
    IF chk.range_start > chk.range_end
    THEN Raised("ValueError", <<chk.range_start, chk.range_end>>, T, chk.found)
    ELSE RangeFrom(chk, 1, T, chk.found)

\* CheckDataConsistency.apply
ApplyDataConsistency(chk, T) ==
    IF Len(chk.columns) < 2 THEN Returned(T, <<>>)
    ELSE LET missing == {i \in DOMAIN chk.columns : chk.columns[i] \notin DOMAIN T}
             collected_types == {DType(T[chk.columns[i]]) : i \in DOMAIN chk.columns}
         IN  IF missing # {}
             THEN Raised("KeyError", chk.columns[SetMin(missing)], T, <<>>)
             ELSE RaiseIf(Cardinality(collected_types) > 1, "ValidDataException",
                          collected_types, T, <<>>)

\* CheckDataRelevancy.apply
ApplyDataRelevancy(chk, T) ==
    LET unexpected_cols ==
            SelectSeq(TableColumns(T), LAMBDA col : col \notin chk.expected_columns)
    IN  RaiseIf(unexpected_cols # <<>>, "DataException", unexpected_cols, T, <<>>)

\* CheckIsNaN.apply
RECURSIVE IsNaNFrom(_, _, _, _)
IsNaNFrom(columns, i, T, cols_with_nan) ==
    IF i > Len(columns)
    THEN RaiseIf(cols_with_nan # <<>>, "ValidDataException", cols_with_nan, T, <<>>)
    ELSE LET column == columns[i] IN
         IF column \notin DOMAIN T THEN Raised("KeyError", column, T, <<>>)
         ELSE IsNaNFrom(columns, i + 1, T,
                  IF NaN \in Cells(T[column]) THEN Append(cols_with_nan, column)
                  ELSE cols_with_nan)

ApplyIsNaN(chk, T) == IsNaNFrom(chk.columns, 1, T, <<>>)

\* check.apply(data_source): the apply of the object's class
Apply(chk, T) ==
    CASE chk.variant = "CheckTimeStamps" -> ApplyTimeStamps(chk, T)
      [] chk.variant = "CheckBlank" -> ApplyBlank(chk, T)
      [] chk.variant = "CheckGibberrish" -> ApplyGibberrish(chk, T)
      [] chk.variant = "CheckDuplicate" -> ApplyDuplicate(chk, T)
      [] chk.variant = "CheckDataValidity" -> ApplyDataValidity(chk, T)
      [] chk.variant = "CheckFutureDates" -> ApplyFutureDates(chk, T)
      [] chk.variant = "CheckNumWithinRange" -> ApplyNumWithinRange(chk, T)
      [] chk.variant = "CheckDataConsistency" -> ApplyDataConsistency(chk, T)
      [] chk.variant = "CheckDataRelevancy" -> ApplyDataRelevancy(chk, T)
      [] chk.variant = "CheckIsNaN" -> ApplyIsNaN(chk, T)

-----------------------------------------------------------------------------
(* One check object and the calls of its apply: the specification SpecCheck *)

Variants ==
    {"CheckTimeStamps", "CheckBlank", "CheckGibberrish", "CheckDuplicate",
     "CheckDataValidity", "CheckFutureDates", "CheckNumWithinRange",
     "CheckDataConsistency", "CheckDataRelevancy", "CheckIsNaN"}

Words == {Str(1), Str(2)}
RangeEnds == {0, 1}
Clock == {1, 2}

\* The check objects a caller constructs: any column names, in any number up
\* to MaxCols, known to the table or not.
CheckInstances ==
    UNION { {CheckTimeStamps(cl), CheckBlank(cl), CheckDuplicate(cl),
             CheckDataConsistency(cl), CheckIsNaN(cl)}
            \cup {CheckGibberrish(cl, g) : g \in SUBSET Words}
            \cup {CheckDataValidity(cl, p) : p \in SUBSET Words}
            \cup {CheckFutureDates(cl, now) : now \in Clock}
            \cup {CheckNumWithinRange(cl, s, e) : s \in RangeEnds, e \in RangeEnds}
            \cup {CheckDataRelevancy(cl, ex) : ex \in SUBSET Cols}
          : cl \in ColumnLists }

\* The cells of the tables a variant is applied to.
CellsFor(variant) ==
    CASE variant = "CheckTimeStamps" -> {Raw(1), Str(1), NaN}
      [] variant = "CheckGibberrish" -> {Str(1), Str(2)}
      [] variant = "CheckDataValidity" -> {Str(1), Str(2)}
      [] variant = "CheckFutureDates" -> {Raw(2), Str(1)}
      [] variant = "CheckNumWithinRange" -> {Int(0), Int(1)}
      [] variant = "CheckDataConsistency" -> {Int(0), Str(1)}
      [] variant = "CheckDuplicate" -> {Int(0), Int(1)}
      [] variant = "CheckIsNaN" -> {Int(0), NaN}
      [] OTHER -> {Int(0)}

EmptyTable == [c \in {} |-> <<>>]
NoResult == [exc |-> "none", payload |-> <<>>]

\* check.apply(T) on object i
CallApply(i, T) ==
    /\ LET r == Apply(pool[i], T) IN
       /\ pool' = [pool EXCEPT ![i].found = r.found]
       /\ res' = [exc |-> r.exc, payload |-> r.payload]
       /\ data_source' = r.table
    /\ prev_table' = T
    /\ prev_found' = pool[i].found
    /\ calls' = [calls EXCEPT ![i] = @ + 1]
    /\ op' = "apply"
    /\ arg' = i
    /\ applied' = <<i>>
    /\ UNCHANGED <<checks, prev_checks>>

TablesFor == [v \in Variants |-> TablesOver(CellsFor(v))]

\* A caller applies the object to a table, up to MaxCalls times.
ApplyOnTable ==
    /\ calls[1] < MaxCalls
    /\ \E T \in TablesFor[pool[1].variant] : CallApply(1, T)

InitCheck ==
    /\ pool \in {<<c>> : c \in CheckInstances}
    /\ calls = <<0>>
    /\ checks = <<>>
    /\ data_source = EmptyTable
    /\ prev_table = EmptyTable
    /\ prev_checks = <<>>
    /\ prev_found = <<>>
    /\ op = "init"
    /\ arg = 0
    /\ res = NoResult
    /\ applied = <<>>

\* The apply of each class, called on an object of that class.
CheckTimeStamps_apply == pool[1].variant = "CheckTimeStamps" /\ ApplyOnTable
CheckBlank_apply == pool[1].variant = "CheckBlank" /\ ApplyOnTable
CheckGibberrish_apply == pool[1].variant = "CheckGibberrish" /\ ApplyOnTable
CheckDuplicate_apply == pool[1].variant = "CheckDuplicate" /\ ApplyOnTable
CheckDataValidity_apply == pool[1].variant = "CheckDataValidity" /\ ApplyOnTable
CheckFutureDates_apply == pool[1].variant = "CheckFutureDates" /\ ApplyOnTable
CheckNumWithinRange_apply == pool[1].variant = "CheckNumWithinRange" /\ ApplyOnTable
CheckDataConsistency_apply == pool[1].variant = "CheckDataConsistency" /\ ApplyOnTable
CheckDataRelevancy_apply == pool[1].variant = "CheckDataRelevancy" /\ ApplyOnTable
CheckIsNaN_apply == pool[1].variant = "CheckIsNaN" /\ ApplyOnTable

NextCheck ==
    \/ CheckTimeStamps_apply
    \/ CheckBlank_apply
    \/ CheckGibberrish_apply
    \/ CheckDuplicate_apply
    \/ CheckDataValidity_apply
    \/ CheckFutureDates_apply
    \/ CheckNumWithinRange_apply
    \/ CheckDataConsistency_apply
    \/ CheckDataRelevancy_apply
    \/ CheckIsNaN_apply

SpecCheck == InitCheck /\ [][NextCheck]_vars

-----------------------------------------------------------------------------
(* solution.py: a DataSource, its table and its list of checks: the          *)
(* specification Spec                                                       *)

\* Variant, target columns and configuration of two check objects agree.
SameStructure(c, d) ==
    /\ c.variant = d.variant
    /\ c.columns = d.columns
    /\ c.gibberish_list = d.gibberish_list
    /\ c.possible_values = d.possible_values
    /\ c.range_start = d.range_start
    /\ c.range_end = d.range_end
    /\ c.expected_columns = d.expected_columns
    /\ c.current_time = d.current_time

\* Mutant of CheckEq: check objects compare by what they hold.
CheckEqByValue(objs, i, j) == SameStructure(objs[i], objs[j])

\* Check defines no __eq__: two check objects are equal when they are the
\* same object.
CheckEq(objs, i, j) == i = j

\* list.index: the position of the first entry equal to object i, 0 if none
ListIndex(objs, list, i) ==
    LET hits == {k \in DOMAIN list : CheckEq(objs, list[k], i)}
    IN  IF hits = {} THEN 0 ELSE SetMin(hits)

RemoveAt(list, k) == SubSeq(list, 1, k - 1) \o SubSeq(list, k + 1, Len(list))

\* Mutant of ListRemove: nothing happens when no entry is equal to x.
ListRemoveIfPresent(objs, list, i) ==
    LET k == ListIndex(objs, list, i)
    IN  IF k = 0 THEN [exc |-> "none", list |-> list]
        ELSE [exc |-> "none", list |-> RemoveAt(list, k)]

\* list.remove(x): deletes the first entry equal to x, ValueError if none
ListRemove(objs, list, i) ==
    LET k == ListIndex(objs, list, i)
    IN  IF k = 0 THEN [exc |-> "ValueError", list |-> list]
        ELSE [exc |-> "none", list |-> RemoveAt(list, k)]

\* Mutant of CheckDataFrom: every check of the list is applied, and the first
\* failure is raised at the end.
RECURSIVE CheckDataRunsAll(_, _, _, _, _)
CheckDataRunsAll(list, k, objs, T, log) ==
    IF k > Len(list)
    THEN [exc |-> "none", payload |-> <<>>, table |-> T, pool |-> objs, applied |-> log]
    ELSE LET i == list[k]
             r == Apply(objs[i], T)
             objs2 == [objs EXCEPT ![i].found = r.found]
             rest == CheckDataRunsAll(list, k + 1, objs2, r.table, Append(log, i))
         IN  IF r.exc # "none"
             THEN [rest EXCEPT !.exc = r.exc, !.payload = r.payload]
             ELSE rest

\* The loop of DataSource.check_data from position k of the list on: an
\* apply that raises ends the loop and the call.
RECURSIVE CheckDataFrom(_, _, _, _, _)
CheckDataFrom(list, k, objs, T, log) ==
    IF k > Len(list)
    THEN [exc |-> "none", payload |-> <<>>, table |-> T, pool |-> objs, applied |-> log]
    ELSE LET i == list[k]
             r == Apply(objs[i], T)
             objs2 == [objs EXCEPT ![i].found = r.found]
         IN  IF r.exc # "none"
             THEN [exc |-> r.exc, payload |-> r.payload, table |-> r.table,
                   pool |-> objs2, applied |-> Append(log, i)]
             ELSE CheckDataFrom(list, k + 1, objs2, r.table, Append(log, i))

\* The checks a caller attaches to the data source, and the tables it loads.
RunnerChecks ==
    {CheckTimeStamps(<<"a", "b">>), CheckTimeStamps(<<"b">>),
     CheckIsNaN(<<"a">>), CheckIsNaN(<<"b">>)}

RunnerTables == [Cols -> [{1} -> {Raw(1), Str(1), NaN}]]

\* A caller constructs a check object.
Construct(c) ==
    /\ Len(pool) < MaxObjs
    /\ pool' = Append(pool, c)
    /\ calls' = Append(calls, 0)
    /\ op' = "construct"
    /\ arg' = Len(pool) + 1
    /\ res' = NoResult
    /\ applied' = <<>>
    /\ prev_checks' = checks
    /\ prev_table' = data_source
    /\ UNCHANGED <<checks, data_source, prev_found>>

\* DataSource.add_check
add_check(i) ==
    /\ Len(checks) < MaxChecks
    /\ checks' = Append(checks, i)
    /\ op' = "add_check"
    /\ arg' = i
    /\ res' = NoResult
    /\ applied' = <<>>
    /\ prev_checks' = checks
    /\ prev_table' = data_source
    /\ UNCHANGED <<pool, calls, data_source, prev_found>>

\* DataSource.remove_check
remove_check(i) ==
    /\ LET r == ListRemove(pool, checks, i) IN
       /\ checks' = r.list
       /\ res' = [exc |-> r.exc, payload |-> <<>>]
    /\ op' = "remove_check"
    /\ arg' = i
    /\ applied' = <<>>
    /\ prev_checks' = checks
    /\ prev_table' = data_source
    /\ UNCHANGED <<pool, calls, data_source, prev_found>>

\* DataSource.check_data
check_data ==
    /\ LET r == CheckDataFrom(checks, 1, pool, data_source, <<>>) IN
       /\ pool' = r.pool
       /\ data_source' = r.table
       /\ res' = [exc |-> r.exc, payload |-> r.payload]
       /\ applied' = r.applied
    /\ op' = "check_data"
    /\ arg' = 0
    /\ prev_checks' = checks
    /\ prev_table' = data_source
    /\ UNCHANGED <<checks, calls, prev_found>>

Init ==
    /\ pool = <<>>
    /\ calls = <<>>
    /\ checks = <<>>
    /\ data_source \in RunnerTables
    /\ prev_table = data_source
    /\ prev_checks = <<>>
    /\ prev_found = <<>>
    /\ op = "init"
    /\ arg = 0
    /\ res = NoResult
    /\ applied = <<>>

Next ==
    \/ \E c \in RunnerChecks : Construct(c)
    \/ \E i \in DOMAIN pool : add_check(i)
    \/ \E i \in DOMAIN pool : remove_check(i)
    \/ check_data

Spec == Init /\ [][Next]_vars

-----------------------------------------------------------------------------
(* What the claims speak of, stated on the table itself                     *)

\* The object of the last operation, its target columns, and whether the
\* table handed to the call has them all.
Target == pool[arg]
TargetCols == {Target.columns[i] : i \in DOMAIN Target.columns}
AllPresent == TargetCols \subseteq DOMAIN prev_table
FirstMissing == SetMin({i \in DOMAIN Target.columns : Target.columns[i] \notin DOMAIN prev_table})

IsApply(variants) == op = "apply" /\ Target.variant \in variants

InvertedRange(chk) == chk.range_start > chk.range_end

\* A cell no date can be read from, for pd.to_datetime and for the formatting
Unreadable(x) == x[1] \notin {"raw", "canon", "int", "null"}
Unformattable(x) == x[1] \notin {"raw", "canon", "int"}

\* The rule of each variant, cell by cell.
HasDuplicate(column) == \E j, k \in DOMAIN column : j # k /\ column[j] = column[k]
HasNull(column) == \E k \in DOMAIN column : column[k] = NaN
HasOutOfRange(chk, column) ==
    \E k \in DOMAIN column :
        /\ column[k][1] = "int"
        /\ column[k][2] < chk.range_start \/ column[k][2] > chk.range_end
HasForbidden(chk, column) == \E k \in DOMAIN column : column[k] \in chk.gibberish_list
HasUnlisted(chk, column) == \E k \in DOMAIN column : column[k] \notin chk.possible_values
HasFuture(chk, column) ==
    \E k \in DOMAIN column :
        column[k][1] \in {"raw", "canon"} /\ column[k][2] > chk.current_time

ColumnViolates(chk, column) ==
    CASE chk.variant = "CheckDuplicate" -> HasDuplicate(column)
      [] chk.variant = "CheckIsNaN" -> HasNull(column)
      [] chk.variant = "CheckNumWithinRange" -> HasOutOfRange(chk, column)
      [] chk.variant = "CheckGibberrish" -> HasForbidden(chk, column)
      [] chk.variant = "CheckDataValidity" -> HasUnlisted(chk, column)
      [] chk.variant = "CheckFutureDates" -> HasFuture(chk, column)

\* The target columns that break the rule in the table handed to the call,
\* in the order of the check's list.
Offenders == SelectSeq(Target.columns, LAMBDA c : ColumnViolates(Target, prev_table[c]))

Stateful == {"CheckGibberrish", "CheckDataValidity", "CheckFutureDates", "CheckNumWithinRange"}

\* The call evaluates the rule on every target column: the columns are there,
\* the range is not inverted, every cell of a future-date check reads as a date.
RuleEvaluated ==
    /\ AllPresent
    /\ Target.variant = "CheckNumWithinRange" => ~InvertedRange(Target)
    /\ Target.variant = "CheckFutureDates" =>
           \A c \in TargetCols : \A x \in Cells(prev_table[c]) : ~Unreadable(x)

\* A ValidDataException payload that names nothing but what the table holds.
OnlyOffendersOfTable ==
    CASE Target.variant = "CheckGibberrish" ->
             \A c \in DOMAIN res.payload :
                 /\ c \in TargetCols
                 /\ res.payload[c] \in Cells(prev_table[c]) \cap Target.gibberish_list
      [] Target.variant = "CheckDataValidity" ->
             \A c \in DOMAIN res.payload :
                 /\ c \in TargetCols
                 /\ res.payload[c] \subseteq Cells(prev_table[c]) \ Target.possible_values
      [] Target.variant = "CheckFutureDates" ->
             \A c \in res.payload : c \in TargetCols /\ HasFuture(Target, prev_table[c])
      [] Target.variant = "CheckNumWithinRange" ->
             \A i \in DOMAIN res.payload :
                 /\ res.payload[i] \in TargetCols
                 /\ HasOutOfRange(Target, prev_table[res.payload[i]])

-----------------------------------------------------------------------------
(* C2: the accumulation state of a check is reset at the start of each      *)
(* apply: whatever the earlier calls on the object did, apply on a table    *)
(* that satisfies the rule of a forbidden-value, whitelist, future-date or  *)
(* range check returns without raising, and a ValidDataException reports    *)
(* only offenders found in that table.                                      *)
C2_ResetOnEachApply ==
    (IsApply(Stateful) /\ RuleEvaluated) =>
        /\ Offenders = <<>> => res.exc = "none"
        /\ res.exc = "ValidDataException" => OnlyOffendersOfTable

\* The same on the first call of an object, where there are no earlier calls.
FirstCallReportsTable ==
    (IsApply(Stateful) /\ RuleEvaluated /\ calls[arg] = 1) =>
        /\ Offenders = <<>> => res.exc = "none"
        /\ res.exc = "ValidDataException" => OnlyOffendersOfTable

-----------------------------------------------------------------------------
(* C3: within one check every offender is collected and raised once: the    *)
(* duplicate check, the null check and the range check (on the first apply  *)
(* of the object) raise ValidDataException exactly when a target column     *)
(* breaks the rule, and the payload lists exactly the target columns that   *)
(* break it, all of them, in the order of the check's list.  The rule is    *)
(* evaluated when the table has every target column and the range is not    *)
(* inverted.                                                                *)
Collecting == {"CheckDuplicate", "CheckIsNaN", "CheckNumWithinRange"}

FirstIfRange == Target.variant = "CheckNumWithinRange" => calls[arg] = 1

C3_AllOffendersRaisedOnce ==
    (IsApply(Collecting) /\ FirstIfRange) =>
        /\ res.exc = "ValidDataException" =>
               AllPresent /\ Offenders # <<>> /\ res.payload = Offenders
        /\ RuleEvaluated =>
               IF Offenders # <<>> THEN res.exc = "ValidDataException"
               ELSE res.exc = "none"

\* A first call that raises two target columns, the second of them found
\* after the first.
C3_Witness ==
    /\ IsApply(Collecting) /\ calls[arg] = 1
    /\ res.exc = "ValidDataException"
    /\ Len(res.payload) = 2 /\ res.payload[1] # res.payload[2]

\* A first call that raises one target column and leaves out the other.
C3_WitnessOneOfTwo ==
    /\ IsApply(Collecting) /\ calls[arg] = 1
    /\ res.exc = "ValidDataException"
    /\ Len(res.payload) = 1 /\ Cardinality(TargetCols) = 2

-----------------------------------------------------------------------------
(* C4: a range check with range_start > range_end raises the configuration  *)
(* error (ValueError) on every apply, whatever the table holds or lacks and *)
(* whatever the earlier calls did; the table and the object are left as     *)
(* they were.  Such an object is constructed without an error: it is an     *)
(* initial state.                                                           *)
C4_InvertedRangeAlwaysRaises ==
    (IsApply({"CheckNumWithinRange"}) /\ InvertedRange(Target)) =>
        /\ res.exc = "ValueError"
        /\ data_source = prev_table
        /\ Target.found = prev_found

\* A second call of an inverted range check, on a table without its column.
C4_Witness ==
    /\ IsApply({"CheckNumWithinRange"}) /\ InvertedRange(Target)
    /\ calls[arg] = 2
    /\ ~AllPresent
    /\ res.exc = "ValueError"

-----------------------------------------------------------------------------
(* C5: the forbidden-value check raises ValidDataException exactly when a   *)
(* cell of a target column of the table is in the forbidden list, and the   *)
(* payload maps each target column with a match to the match that comes     *)
(* last in the column, with no entry for a column without a match.          *)
LastMatch(chk, column) ==
    column[SetMax({k \in DOMAIN column : column[k] \in chk.gibberish_list})]

LastMatches ==
    [c \in {d \in TargetCols : HasForbidden(Target, prev_table[d])} |->
        LastMatch(Target, prev_table[c])]

C5_LastMatchWins ==
    (IsApply({"CheckGibberrish"}) /\ AllPresent) =>
        IF Offenders # <<>>
        THEN res.exc = "ValidDataException" /\ res.payload = LastMatches
        ELSE res.exc = "none"

\* The same on the first call of an object.
FirstCallLastMatchWins ==
    (IsApply({"CheckGibberrish"}) /\ AllPresent /\ calls[arg] = 1) =>
        IF Offenders # <<>>
        THEN res.exc = "ValidDataException" /\ res.payload = LastMatches
        ELSE res.exc = "none"

-----------------------------------------------------------------------------
(* C8: a check is constructed with any column names (every list of          *)
(* ColumnLists is an initial state), and a table that lacks a target column *)
(* is found out by apply.                                                   *)
UsesColumns == Variants \ {"CheckDataRelevancy"}

\* C8 as claimed: apply on a table that lacks a target column raises KeyError,
\* for any number of target columns and any contents of the other columns.
C8_MissingColumnRaisesKeyError ==
    (IsApply(UsesColumns) /\ ~AllPresent) => res.exc = "KeyError"

\* The target columns listed before the first missing one.
BeforeMissing == {Target.columns[i] : i \in 1..(FirstMissing - 1)}

\* C8 as amended: apply raises KeyError, naming the first missing column,
\* unless the call ends before it reads that column: a type-consistency check
\* with fewer than two columns returns at once, a range check with inverted
\* bounds raises ValueError, and a column listed before the missing one ends
\* the call when it holds a cell the check cannot read (a string that is no
\* date for the timestamp and future-date checks, a missing value for the
\* timestamp check, a string for the range check).
C8_MissingColumnAmended ==
    (IsApply(UsesColumns) /\ ~AllPresent) =>
        CASE Target.variant = "CheckDataConsistency" /\ Len(Target.columns) < 2 ->
                 res.exc = "none"
          [] Target.variant = "CheckNumWithinRange" /\ InvertedRange(Target) ->
                 res.exc = "ValueError"
          [] /\ Target.variant = "CheckNumWithinRange" /\ ~InvertedRange(Target)
             /\ \E c \in BeforeMissing : \E x \in Cells(prev_table[c]) :
                    x[1] \notin {"int", "null"} ->
                 res.exc = "TypeError"
          [] /\ Target.variant = "CheckTimeStamps"
             /\ \E c \in BeforeMissing : \E x \in Cells(prev_table[c]) : Unformattable(x) ->
                 res.exc \in {"ParserError", "ValueError"}
          [] /\ Target.variant = "CheckFutureDates"
             /\ \E c \in BeforeMissing : \E x \in Cells(prev_table[c]) : Unreadable(x) ->
                 res.exc = "ParserError"
          [] OTHER ->
                 res.exc = "KeyError" /\ res.payload = Target.columns[FirstMissing]

\* A check with two target columns reads the first and raises KeyError on
\* the second, which the table lacks.
C8_Witness ==
    /\ IsApply(UsesColumns)
    /\ Len(Target.columns) = 2
    /\ Target.columns[1] \in DOMAIN prev_table
    /\ Len(prev_table[Target.columns[1]]) > 0
    /\ Target.columns[2] \notin DOMAIN prev_table
    /\ res.exc = "KeyError" /\ res.payload = Target.columns[2]

-----------------------------------------------------------------------------
(* C9: only timestamp normalization changes the table.  The apply of every  *)
(* other variant, returning or raising, leaves the table as it was; the     *)
(* apply of CheckTimeStamps leaves the set of columns, the number of rows   *)
(* and every column that is not a target as they were.                      *)
C9_OnlyNormalizationMutates ==
    IsApply(Variants) =>
        /\ DOMAIN data_source = DOMAIN prev_table
        /\ \A c \in DOMAIN prev_table : Len(data_source[c]) = Len(prev_table[c])
        /\ \A c \in DOMAIN prev_table \ TargetCols : data_source[c] = prev_table[c]
        /\ Target.variant # "CheckTimeStamps" => data_source = prev_table

\* A normalization that rewrote its target column beside a column that is
\* not a target and holds a date in the other format.
C9_Witness ==
    /\ IsApply({"CheckTimeStamps"})
    /\ \E c \in TargetCols \cap DOMAIN prev_table : data_source[c] # prev_table[c]
    /\ \E c \in DOMAIN prev_table \ TargetCols :
           \E k \in DOMAIN prev_table[c] : prev_table[c][k] = Raw(1)

-----------------------------------------------------------------------------
(* The last check_data, check by check                                      *)

\* The table after the first k checks of the list have been applied to it.
RECURSIVE TableAfter(_)
TableAfter(k) ==
    IF k = 0 THEN prev_table
    ELSE Apply(pool[prev_checks[k]], TableAfter(k - 1)).table

\* How the apply of the k-th check of the list ends on the table the checks
\* before it left.
OutcomeOf(k) == Apply(pool[prev_checks[k]], TableAfter(k - 1))

(* C1: check_data applies the checks in insertion order to the one shared   *)
(* table and stops at the first check whose apply raises: that failure is   *)
(* what the caller gets, every check before it has been applied exactly     *)
(* once, and no check after it is applied in that run.                      *)
C1_StopsAtFirstFailure ==
    op = "check_data" =>
        LET n == Len(applied) IN
        /\ n <= Len(prev_checks)
        /\ applied = SubSeq(prev_checks, 1, n)
        /\ \A k \in 1..(n - 1) : OutcomeOf(k).exc = "none"
        /\ data_source = TableAfter(n)
        /\ IF res.exc = "none"
           THEN n = Len(prev_checks) /\ (n > 0 => OutcomeOf(n).exc = "none")
           ELSE /\ n > 0
                /\ res.exc = OutcomeOf(n).exc
                /\ res.payload = OutcomeOf(n).payload

\* A run over three checks: the first returns, the second raises, and the
\* third, which would raise too, is not applied.
C1_Witness ==
    /\ op = "check_data"
    /\ Len(prev_checks) = 3
    /\ applied = SubSeq(prev_checks, 1, 2)
    /\ res.exc # "none"
    /\ Apply(pool[prev_checks[3]], data_source).exc # "none"

-----------------------------------------------------------------------------
(* remove_check                                                             *)

\* The positions of the list before the call whose entry has the structure
\* of the object handed to remove_check, and those whose entry is that object.
EqualEntries == {k \in DOMAIN prev_checks : SameStructure(pool[prev_checks[k]], pool[arg])}
SameEntries == {k \in DOMAIN prev_checks : prev_checks[k] = arg}

\* C6 as claimed: remove_check of a check with no equal entry in the list
\* returns normally and leaves the list unchanged.
C6_RemoveAbsentIsNoOp ==
    (op = "remove_check" /\ EqualEntries = {}) =>
        res.exc = "none" /\ checks = prev_checks

\* C6 as amended: remove_check of a check with no equal entry in the list
\* raises ValueError and leaves the list unchanged.
C6_RemoveAbsentRaises ==
    (op = "remove_check" /\ EqualEntries = {}) =>
        res.exc = "ValueError" /\ checks = prev_checks

\* remove_check of a check that is not in a list of two other checks.
C6_Witness ==
    /\ op = "remove_check" /\ EqualEntries = {}
    /\ Len(prev_checks) = 2
    /\ res.exc = "ValueError"

-----------------------------------------------------------------------------
(* C10: timestamp normalization is not rolled back.  When the apply of a    *)
(* CheckTimeStamps fails on a cell of column ck that does not format, the   *)
(* columns listed before ck stay rewritten in canonical form, ck and the    *)
(* columns not yet reached keep their values, and check_data ends there:    *)
(* the checks after the failing one are not applied.                        *)
Formatted(column) == [k \in DOMAIN column |-> FormatCell(column[k])]

LastFailed == pool[applied[Len(applied)]]

\* The position in the failing check's list of the first column with a cell
\* that does not format, in the table the checks before it left.
FailingPosition ==
    SetMin({i \in DOMAIN LastFailed.columns :
               \E x \in Cells(TableAfter(Len(applied) - 1)[LastFailed.columns[i]]) :
                   Unformattable(x)})

C10_NoRollback ==
    (op = "check_data" /\ res.exc # "none" /\ LastFailed.variant = "CheckTimeStamps") =>
        LET before == TableAfter(Len(applied) - 1)
            done == {LastFailed.columns[i] : i \in 1..(FailingPosition - 1)}
        IN  /\ DOMAIN data_source = DOMAIN before
            /\ \A c \in DOMAIN before :
                   data_source[c] = IF c \in done THEN Formatted(before[c]) ELSE before[c]
            /\ res.payload[1] = LastFailed.columns[FailingPosition]
            /\ applied = SubSeq(prev_checks, 1, Len(applied))

\* The normalization of "a" then "b" fails on "b": "a" is left rewritten, "b"
\* as it was, and a check listed after it is not applied.
C10_Witness ==
    /\ op = "check_data" /\ res.exc = "ParserError"
    /\ LastFailed.variant = "CheckTimeStamps"
    /\ FailingPosition = 2
    /\ prev_table["a"] = <<Raw(1)>> /\ data_source["a"] = <<Canon(1)>>
    /\ data_source["b"] = prev_table["b"]
    /\ Len(applied) < Len(prev_checks)

=============================================================================
